---- MODULE Spec2Model ----
(***************************************************************************)
(* Model of the dudufisio deployment scripts and API probes.               *)
(*                                                                         *)
(*   Part 1  src/apply-migrations-api.py  (the migration applier)          *)
(*   Part 2  src/testsprite_tests/TC0xx   (the API probe scripts)          *)
(*                                                                         *)
(* The environment (file system, remote endpoints) answers every call      *)
(* nondeterministically.  A migration file is either absent or readable    *)
(* UTF-8 text; its text is a sequence of characters over Alphabet.         *)
(***************************************************************************)
EXTENDS Integers, Sequences, FiniteSets, TLC

VARIABLES
    pc,                 \* position of main() of apply-migrations-api.py
    mig,                \* 1-based index of the migration the for loop of main is at
    sql_content,        \* main: what read_migration_file returned (None or text)
    statements,         \* apply_migration: the list built at line 88
    i,                  \* apply_migration: 1-based index of the loop over statements
    success_count,      \* apply_migration: success_count
    result,             \* apply_migration: result of the last execute_sql_* call
    main_success_count, \* main: success_count
    inflight,           \* the HTTP requests sent and not yet answered
    reqlog,             \* execution requests sent for the current migration
    last_resp,          \* the answer the last execute_sql_* call received
    conn_resp,          \* the answer test_connection received, None before it
    succeeded,          \* indices of statements whose result was a success
    printed,            \* error lines printed for the current migration
    hist,               \* per migration: what was read and what was reported
    summary,            \* the "k/M" line of main, NoSummary before it is printed
    exit_status,        \* process exit status, NoExit while running
    script,             \* the probe script that runs (one process per script)
    ppc,                \* position of the probe script
    exc,                \* the exceptions raised and not caught, oldest first
    plocals,            \* local variables of the probe's test function
    trace,              \* the requests the probe issued, with their answers
    created,            \* resources the server created for the probe
    deleted,            \* resources a DELETE request was issued for
    failed              \* the checks (assert statements) that failed

avars == <<pc, mig, sql_content, statements, i, success_count, result,
           main_success_count, inflight, reqlog, last_resp, conn_resp,
           succeeded, printed, hist, summary, exit_status>>

pvars == <<script, ppc, exc, plocals, trace, created, deleted, failed>>

vars == <<avars, pvars>>

None == "None"

\* the "k/M" line not printed yet; the process has not exited yet
NoSummary == [k |-> 0, m |-> 0]

NoExit == -1

(***************************************************************************)
(* Bounds of the model and constants of the program.                       *)
(***************************************************************************)
MaxTextLen == 4

NumMigrations == 3

Alphabet == {"a", "-", ";", "\n"}

Texts == UNION {[1..n -> Alphabet] : n \in 0..MaxTextLen}

\* What read_migration_file returns: None (no such file) or the file's text.
NoFile == [exists |-> FALSE, text |-> <<>>]

FileContents == {NoFile} \cup {[exists |-> TRUE, text |-> t] : t \in Texts}

\* HTTP status codes the endpoints are taken to answer with.
Statuses == {200, 201, 500}

\* An answer to a requests.get/post call: a response, or a raised exception
\* (transport error or timeout).  json says whether the body parses as JSON.
Responses ==
    [kind : {"http"}, status : Statuses, json : BOOLEAN]
        \cup {[kind |-> "exception", status |-> 0, json |-> FALSE]}

NoResponse == [kind |-> None, status |-> 0, json |-> FALSE]

(***************************************************************************)
(* Text handling: str.split(';'), str.strip(), str.startswith('--').       *)
(***************************************************************************)
IsSpace(c) == c = "\n"

\* str.split(sep): always at least one segment, empty segments are kept.
RECURSIVE SplitOn(_, _)
SplitOn(t, sep) ==
    IF \A k \in 1..Len(t) : t[k] # sep
    THEN <<t>>
    ELSE LET p == CHOOSE k \in 1..Len(t) :
                      t[k] = sep /\ \A j \in 1..(k - 1) : t[j] # sep
         IN  <<SubSeq(t, 1, p - 1)>> \o SplitOn(SubSeq(t, p + 1, Len(t)), sep)

\* str.strip(): leading and trailing whitespace removed.
Strip(s) ==
    LET keep == {k \in 1..Len(s) : ~IsSpace(s[k])}
    IN  IF keep = {} THEN <<>>
        ELSE LET lo == CHOOSE k \in keep : \A j \in keep : k <= j
                 hi == CHOOSE k \in keep : \A j \in keep : j <= k
             IN  SubSeq(s, lo, hi)

\* str.startswith('--')
StartsWithComment(s) == Len(s) >= 2 /\ s[1] = "-" /\ s[2] = "-"

StripAll(segs) == [k \in 1..Len(segs) |-> Strip(segs[k])]

NonEmpty(s) == s # <<>>

\* line 88: [stmt.strip() for stmt in sql_content.split(';') if stmt.strip()]
Statements(text) == SelectSeq(StripAll(SplitOn(text, ";")), NonEmpty)

\* line 92: the statements the loop does not skip
Skipped(statement) == statement = <<>> \/ StartsWithComment(statement)

\* Python truthiness of sql_content at line 169: None and "" are falsy.
Truthy(content) == content.exists /\ content.text # <<>>

(***************************************************************************)
(* Results of the execute_sql_* functions: {'success': .., 'data'/'error'} *)
(* ep names the endpoint that produced it; detail is "data" for a success, *)
(* and for a failure what the error text carries: "http" ("HTTP <status>:  *)
(* <text>") or "exception" (str(e)).  detail "raised" stands for an        *)
(* exception leaving the function, which no path of the code produces.     *)
(***************************************************************************)
Success(ep) == [success |-> TRUE, ep |-> ep, detail |-> "data", status |-> 0]

HttpError(ep, status) ==
    [success |-> FALSE, ep |-> ep, detail |-> "http", status |-> status]

Caught(ep) ==
    [success |-> FALSE, ep |-> ep, detail |-> "exception", status |-> 0]

Raised(ep) ==
    [success |-> FALSE, ep |-> ep, detail |-> "raised", status |-> 0]

NoResult == [success |-> FALSE, ep |-> None, detail |-> None, status |-> 0]

\* execute_sql_via_rpc, lines 37-53.  response.json() is evaluated inside the
\* try: a 200 whose body is not JSON raises and is caught at line 52.
ExecuteSqlViaRpc(resp) ==
    IF resp.kind = "exception" THEN Caught("rpc")
    ELSE IF resp.status = 200
         THEN (IF resp.json THEN Success("rpc") ELSE Caught("rpc"))
         ELSE HttpError("rpc", resp.status)

\* execute_sql_direct without its except clause: the exception leaves it
ExecuteSqlDirect_uncaught(resp) ==
    IF resp.kind = "exception" THEN Raised("direct")
    ELSE IF resp.status \in {200, 201, 204}
         THEN Success("direct")
         ELSE HttpError("direct", resp.status)

\* execute_sql_direct, lines 64-81.
ExecuteSqlDirect(resp) ==
    IF resp.kind = "exception" THEN Caught("direct")
    ELSE IF resp.status \in {200, 201, 204}
         THEN Success("direct")
         ELSE HttpError("direct", resp.status)

\* test_connection that takes any HTTP answer for a success
TestConnection_anyStatus(resp) == resp.kind = "http"

\* test_connection, lines 122-137.
TestConnection(resp) == resp.kind = "http" /\ resp.status = 200

\* a fallback that is taken whatever the primary result was
NeedsFallback_always(res) == TRUE

\* no fallback: the primary result is the one that is tallied
NeedsFallback_never(res) == FALSE

\* line 99: the secondary endpoint is tried when the primary result is no success
NeedsFallback(res) == ~res.success

\* a loop that stops at the first statement that failed on both endpoints
NextIndex_break(idx, res, stmts) ==
    IF res.success THEN idx + 1 ELSE Len(stmts) + 1

\* a loop that tries a statement again until an endpoint takes it
NextIndex_retry(idx, res, stmts) == IF res.success THEN idx + 1 ELSE idx

\* lines 91-108: the loop goes on to the next statement whatever the result was
NextIndex(idx, res, stmts) == idx + 1

\* a main that exits on a missing file, as deploy-production.py does
AfterRead_exit(content) ==
    IF ~content.exists THEN "exited"
    ELSE IF Truthy(content) THEN "stmt" ELSE "sleep"

\* a pause that is taken only after apply_migration was called: with a falsy
\* sql_content the loop goes straight to its next turn
AfterRead_nopause(content) == IF Truthy(content) THEN "stmt" ELSE "loop"

\* line 169: a falsy sql_content skips apply_migration; line 171 follows
AfterRead(content) == IF Truthy(content) THEN "stmt" ELSE "sleep"

\* line 111
ApplyMigrationResult(count, stmts) == count = Len(stmts)

\* lines 175-183: exit status of a run that reached the summary
ExitStatus(count, total) == IF count = total THEN 0 ELSE 1

(***************************************************************************)
(* What the specification calls a statement: a segment that is not empty   *)
(* and does not consist solely of comment.                                 *)
(***************************************************************************)
IsCommentOnly(seg) ==
    LET lines == StripAll(SplitOn(seg, "\n"))
    IN  \A k \in 1..Len(lines) : lines[k] = <<>> \/ StartsWithComment(lines[k])

IsStatement(seg) == seg # <<>> /\ ~IsCommentOnly(seg)

\* every statement of the current migration returned success from an endpoint
EveryStatementSucceeded ==
    \A k \in 1..Len(statements) : IsStatement(statements[k]) => k \in succeeded

\* locals of a probe's test function: None, an id the server returned, or not
\* bound yet; loop is the position of the for loop the function is in
Unbound == "unbound"

NoLocals ==
    [patient_id |-> Unbound, session_id |-> Unbound, appointment_id |-> Unbound,
     created_patient_ids |-> <<>>, token |-> FALSE, loop |-> 0]

HistPending == [file |-> "pending", called |-> FALSE, ret |-> FALSE, truth |-> FALSE]

(***************************************************************************)
(* Initial state: main() is about to run.                                  *)
(***************************************************************************)
InitApplier ==
    /\ pc = "start"
    /\ mig = 1
    /\ sql_content = NoFile
    /\ statements = <<>>
    /\ i = 1
    /\ success_count = 0
    /\ result = NoResult
    /\ main_success_count = 0
    /\ inflight = {}
    /\ reqlog = <<>>
    /\ last_resp = NoResponse
    /\ conn_resp = NoResponse
    /\ succeeded = {}
    /\ printed = <<>>
    /\ hist = [k \in 1..NumMigrations |-> HistPending]
    /\ summary = NoSummary
    /\ exit_status = NoExit

\* groups of variables, for the UNCHANGED clauses
frame == <<statements, i, success_count, result>>

logs == <<reqlog, last_resp, succeeded, printed>>

mainvars == <<mig, sql_content, main_success_count, hist, summary>>

(***************************************************************************)
(* main, lines 144-147, and test_connection, lines 122-137.                *)
(***************************************************************************)
\* line 123: the GET of the connectivity check goes out
TestConnectionSend ==
    /\ pc = "start"
    /\ inflight' = inflight \cup {[ep |-> "rest", idx |-> 0, sql |-> <<>>]}
    /\ pc' = "conn_wait"
    /\ UNCHANGED <<pvars, mainvars, frame, logs, conn_resp, exit_status>>

\* lines 129-137 and 145-147: the check answers; sys.exit(1) when it failed
TestConnectionReturn ==
    /\ pc = "conn_wait"
    /\ \E resp \in Responses :
          /\ conn_resp' = resp
          /\ inflight' = {}
          /\ IF TestConnection(resp)
             THEN pc' = "loop" /\ exit_status' = exit_status
             ELSE pc' = "exited" /\ exit_status' = 1
    /\ UNCHANGED <<pvars, mainvars, frame, logs>>

(***************************************************************************)
(* main, lines 167-169: read the file of the next migration and, when its  *)
(* content is truthy, enter apply_migration (lines 85-90).                 *)
(***************************************************************************)
ReadMigrationFile ==
    /\ pc = "loop"
    /\ mig <= NumMigrations
    /\ \E content \in FileContents :
          /\ sql_content' = content
          /\ pc' = AfterRead(content)
          /\ statements' = IF Truthy(content) THEN Statements(content.text) ELSE <<>>
          /\ hist' = [hist EXCEPT ![mig] =
                        [file   |-> IF ~content.exists THEN "missing"
                                    ELSE IF content.text = <<>> THEN "empty"
                                    ELSE "text",
                         called |-> pc' = "stmt",
                         ret    |-> FALSE,
                         truth  |-> content.exists /\ content.text = <<>>]]
    /\ i' = 1
    /\ success_count' = 0
    /\ UNCHANGED <<pvars, mig, main_success_count, summary, result, logs, inflight,
                   conn_resp, exit_status>>

(***************************************************************************)
(* apply_migration, lines 91-108.                                          *)
(***************************************************************************)
\* lines 92-93: continue
SkipStatement ==
    /\ pc = "stmt"
    /\ i <= Len(statements)
    /\ Skipped(statements[i])
    /\ i' = i + 1
    /\ UNCHANGED <<pvars, pc, mainvars, statements, success_count, result, logs,
                   inflight, conn_resp, exit_status>>

\* a tally that counts a success once per endpoint that was called for the
\* statement
Tally_perAttempt(res) ==
    IF res.detail = "raised"
    THEN /\ pc' = "crashed"
         /\ exit_status' = 1
         /\ UNCHANGED <<i, success_count, succeeded, printed>>
    ELSE /\ pc' = "stmt"
         /\ exit_status' = exit_status
         /\ i' = NextIndex(i, res, statements)
         /\ IF res.success
            THEN /\ success_count' =
                      success_count + (IF res.ep = "direct" THEN 2 ELSE 1)
                 /\ succeeded' = succeeded \cup {i}
                 /\ printed' = printed
            ELSE /\ printed' = Append(printed,
                                  [idx |-> i, ep |-> res.ep,
                                   detail |-> res.detail, status |-> res.status])
                 /\ UNCHANGED <<success_count, succeeded>>

\* lines 103-107 and the loop step.  An exception leaving execute_sql_* would
\* leave apply_migration and main as well: neither has a try block.
Tally(res) ==
    IF res.detail = "raised"
    THEN /\ pc' = "crashed"
         /\ exit_status' = 1
         /\ UNCHANGED <<i, success_count, succeeded, printed>>
    ELSE /\ pc' = "stmt"
         /\ exit_status' = exit_status
         /\ i' = NextIndex(i, res, statements)
         /\ IF res.success
            THEN /\ success_count' = success_count + 1
                 /\ succeeded' = succeeded \cup {i}
                 /\ printed' = printed
            ELSE /\ printed' = Append(printed,
                                  [idx |-> i, ep |-> res.ep,
                                   detail |-> res.detail, status |-> res.status])
                 /\ UNCHANGED <<success_count, succeeded>>

\* a primary call that is handed to a worker and not waited for
RpcSend_async ==
    /\ pc = "stmt"
    /\ i <= Len(statements)
    /\ ~Skipped(statements[i])
    /\ LET req == [ep |-> "rpc", idx |-> i, sql |-> statements[i]]
       IN  /\ inflight' = inflight \cup {req}
           /\ reqlog' = Append(reqlog, req)
    /\ i' = i + 1
    /\ UNCHANGED <<pvars, pc, mainvars, statements, success_count, result,
                   last_resp, succeeded, printed, conn_resp, exit_status>>

\* line 98: the request of execute_sql_via_rpc (line 38) goes out
RpcSend ==
    /\ pc = "stmt"
    /\ i <= Len(statements)
    /\ ~Skipped(statements[i])
    /\ LET req == [ep |-> "rpc", idx |-> i, sql |-> statements[i]]
       IN  /\ inflight' = inflight \cup {req}
           /\ reqlog' = Append(reqlog, req)
    /\ pc' = "rpc_wait"
    /\ UNCHANGED <<pvars, mainvars, frame, last_resp, succeeded, printed, conn_resp,
                   exit_status>>

\* lines 45-53 and 99: the primary answers
RpcReturn ==
    /\ pc = "rpc_wait"
    /\ \E resp \in Responses :
          LET res == ExecuteSqlViaRpc(resp)
          IN  /\ last_resp' = resp
              /\ result' = res
              /\ inflight' = {}
              /\ IF NeedsFallback(res) /\ res.detail # "raised"
                 THEN /\ pc' = "direct"
                      /\ UNCHANGED <<i, success_count, succeeded, printed,
                                     exit_status>>
                 ELSE Tally(res)
    /\ UNCHANGED <<pvars, mainvars, statements, reqlog, conn_resp>>

\* line 101: the request of execute_sql_direct (line 66) goes out
DirectSend ==
    /\ pc = "direct"
    /\ LET req == [ep |-> "direct", idx |-> i, sql |-> statements[i]]
       IN  /\ inflight' = inflight \cup {req}
           /\ reqlog' = Append(reqlog, req)
    /\ pc' = "direct_wait"
    /\ UNCHANGED <<pvars, mainvars, frame, last_resp, succeeded, printed, conn_resp,
                   exit_status>>

\* lines 73-81: the secondary answers
DirectReturn ==
    /\ pc = "direct_wait"
    /\ \E resp \in Responses :
          LET res == ExecuteSqlDirect(resp)
          IN  /\ last_resp' = resp
              /\ result' = res
              /\ inflight' = {}
              /\ Tally(res)
    /\ UNCHANGED <<pvars, mainvars, statements, reqlog, conn_resp>>

\* a main that leaves its loop at the first migration that was not fully
\* applied
ApplyMigrationReturn_break ==
    /\ pc = "stmt"
    /\ i > Len(statements)
    /\ LET ret == ApplyMigrationResult(success_count, statements)
       IN  /\ main_success_count' =
                 IF ret THEN main_success_count + 1 ELSE main_success_count
           /\ hist' = [hist EXCEPT ![mig].ret = ret,
                                   ![mig].truth = EveryStatementSucceeded]
           /\ pc' = IF ret THEN "sleep" ELSE "summary"
           /\ summary' = IF ret THEN summary
                         ELSE [k |-> main_success_count, m |-> NumMigrations]
    /\ UNCHANGED <<pvars, mig, sql_content, frame, logs, inflight, conn_resp,
                   exit_status>>

\* lines 110-111 and 169-170: apply_migration returns, main counts
ApplyMigrationReturn ==
    /\ pc = "stmt"
    /\ i > Len(statements)
    /\ LET ret == ApplyMigrationResult(success_count, statements)
       IN  /\ main_success_count' =
                 IF ret THEN main_success_count + 1 ELSE main_success_count
           /\ hist' = [hist EXCEPT ![mig].ret = ret,
                                   ![mig].truth = EveryStatementSucceeded]
    /\ pc' = "sleep"
    /\ UNCHANGED <<pvars, mig, sql_content, summary, frame, logs, inflight, conn_resp,
                   exit_status>>

\* line 171: time.sleep(2), then the next iteration of the for loop.  The
\* values of the finished iteration are dead from here on (line 168 assigns
\* sql_content before it is read again, apply_migration's frame is gone), and
\* the logs are kept per migration: all of them go back to their initial values.
Sleep ==
    /\ pc = "sleep"
    /\ mig' = mig + 1
    /\ pc' = "loop"
    /\ sql_content' = NoFile
    /\ statements' = <<>>
    /\ i' = 1
    /\ success_count' = 0
    /\ result' = NoResult
    /\ reqlog' = <<>>
    /\ last_resp' = NoResponse
    /\ succeeded' = {}
    /\ printed' = <<>>
    /\ UNCHANGED <<pvars, main_success_count, hist, summary, inflight, conn_resp,
                   exit_status>>

\* line 173
PrintSummary ==
    /\ pc = "loop"
    /\ mig > NumMigrations
    /\ summary' = [k |-> main_success_count, m |-> NumMigrations]
    /\ pc' = "summary"
    /\ UNCHANGED <<pvars, mig, sql_content, main_success_count, hist, frame, logs,
                   inflight, conn_resp, exit_status>>

\* lines 175-183
Finish ==
    /\ pc = "summary"
    /\ exit_status' = ExitStatus(main_success_count, NumMigrations)
    /\ pc' = IF exit_status' = 0 THEN "done" ELSE "exited"
    /\ UNCHANGED <<pvars, mainvars, frame, logs, inflight, conn_resp>>

\* no probe runs beside the applier
ProbeIdle ==
    /\ script = None
    /\ ppc = None
    /\ exc = <<>>
    /\ plocals = NoLocals
    /\ trace = <<>>
    /\ created = {}
    /\ deleted = {}
    /\ failed = <<>>

Init == InitApplier /\ ProbeIdle

Next ==
    \/ TestConnectionSend
    \/ TestConnectionReturn
    \/ ReadMigrationFile
    \/ SkipStatement
    \/ RpcSend
    \/ RpcReturn
    \/ DirectSend
    \/ DirectReturn
    \/ ApplyMigrationReturn
    \/ Sleep
    \/ PrintSummary
    \/ Finish

Spec == Init /\ [][Next]_vars

\* The applier has one thread and every call it makes returns: requests.get
\* and requests.post are given a timeout (lines 42, 70, 126), reading a file
\* and time.sleep(2) end.  So a step that is possible is taken.
SpecLive == Spec /\ WF_vars(Next)

(***************************************************************************)
(* Part 1b: src/deploy-production.py, the applier with one endpoint.  Its  *)
(* main has the same shape and is modelled on the same variables; its list *)
(* of migrations (lines 116-129) has NumMigrations entries as well.  It    *)
(* makes no connectivity check, and conn_resp keeps its initial value.     *)
(***************************************************************************)
\* execute_sql_via_rpc, lines 64-80
Deploy_ExecuteSqlViaRpc(resp) ==
    IF resp.kind = "exception" THEN Caught("rpc")
    ELSE IF resp.status = 200
         THEN (IF resp.json THEN Success("rpc") ELSE Caught("rpc"))
         ELSE HttpError("rpc", resp.status)

\* get_env_vars, lines 17-40, called at line 112: sys.exit(1) when
\* SUPABASE_SERVICE_ROLE_KEY is not set or empty
Deploy_GetEnvVars ==
    /\ pc = "start"
    /\ \E key_set \in BOOLEAN :
          IF key_set
          THEN pc' = "loop" /\ exit_status' = exit_status
          ELSE pc' = "exited" /\ exit_status' = 1
    /\ UNCHANGED <<pvars, mainvars, frame, logs, inflight, conn_resp>>

\* lines 134-135 with read_migration_file, lines 42-49: sys.exit(1) when the
\* file is not found; otherwise apply_migration is entered (lines 84-89)
\* whatever the text is
Deploy_ReadMigrationFile ==
    /\ pc = "loop"
    /\ mig <= NumMigrations
    /\ \E content \in FileContents :
          /\ sql_content' = content
          /\ IF content.exists
             THEN pc' = "stmt" /\ exit_status' = exit_status
             ELSE pc' = "exited" /\ exit_status' = 1
          /\ statements' = IF content.exists THEN Statements(content.text) ELSE <<>>
          /\ hist' = [hist EXCEPT ![mig] =
                        [file   |-> IF ~content.exists THEN "missing"
                                    ELSE IF content.text = <<>> THEN "empty"
                                    ELSE "text",
                         called |-> content.exists,
                         ret    |-> FALSE,
                         truth  |-> FALSE]]
    /\ i' = 1
    /\ success_count' = 0
    /\ UNCHANGED <<pvars, mig, main_success_count, summary, result, logs, inflight,
                   conn_resp>>

\* line 96: the request of execute_sql_via_rpc (line 65) goes out.  The test
\* of line 91 is never true: line 87 keeps only non-empty statements.
Deploy_RpcSend ==
    /\ pc = "stmt"
    /\ i <= Len(statements)
    /\ LET req == [ep |-> "rpc", idx |-> i, sql |-> statements[i]]
       IN  /\ inflight' = inflight \cup {req}
           /\ reqlog' = Append(reqlog, req)
    /\ pc' = "rpc_wait"
    /\ UNCHANGED <<pvars, mainvars, frame, last_resp, succeeded, printed, conn_resp,
                   exit_status>>

\* lines 72-80 and 97-101: the endpoint answers, the result is tallied
Deploy_RpcReturn ==
    /\ pc = "rpc_wait"
    /\ \E resp \in Responses :
          LET res == Deploy_ExecuteSqlViaRpc(resp)
          IN  /\ last_resp' = resp
              /\ result' = res
              /\ inflight' = {}
              /\ IF res.success
                 THEN /\ success_count' = success_count + 1
                      /\ succeeded' = succeeded \cup {i}
                      /\ printed' = printed
                 ELSE /\ printed' = Append(printed,
                                       [idx |-> i, ep |-> res.ep,
                                        detail |-> res.detail, status |-> res.status])
                      /\ UNCHANGED <<success_count, succeeded>>
    /\ i' = i + 1
    /\ pc' = "stmt"
    /\ UNCHANGED <<pvars, mainvars, statements, reqlog, conn_resp, exit_status>>

\* lines 103-104 and 135-136: apply_migration returns, main counts and goes
\* to the next migration; the values of the finished iteration are dead
Deploy_ApplyMigrationReturn ==
    /\ pc = "stmt"
    /\ i > Len(statements)
    /\ LET ret == ApplyMigrationResult(success_count, statements)
       IN  /\ main_success_count' =
                 IF ret THEN main_success_count + 1 ELSE main_success_count
           /\ hist' = [hist EXCEPT ![mig].ret = ret,
                                   ![mig].truth = EveryStatementSucceeded]
    /\ mig' = mig + 1
    /\ pc' = "loop"
    /\ sql_content' = NoFile
    /\ statements' = <<>>
    /\ i' = 1
    /\ success_count' = 0
    /\ result' = NoResult
    /\ reqlog' = <<>>
    /\ last_resp' = NoResponse
    /\ succeeded' = {}
    /\ printed' = <<>>
    /\ UNCHANGED <<pvars, summary, inflight, conn_resp, exit_status>>

\* line 138
Deploy_PrintSummary ==
    /\ pc = "loop"
    /\ mig > NumMigrations
    /\ summary' = [k |-> main_success_count, m |-> NumMigrations]
    /\ pc' = "summary"
    /\ UNCHANGED <<pvars, mig, sql_content, main_success_count, hist, frame, logs,
                   inflight, conn_resp, exit_status>>

\* lines 140-148
Deploy_Finish ==
    /\ pc = "summary"
    /\ exit_status' = ExitStatus(main_success_count, NumMigrations)
    /\ pc' = IF exit_status' = 0 THEN "done" ELSE "exited"
    /\ UNCHANGED <<pvars, mainvars, frame, logs, inflight, conn_resp>>

NextDeploy ==
    \/ Deploy_GetEnvVars
    \/ Deploy_ReadMigrationFile
    \/ Deploy_RpcSend
    \/ Deploy_RpcReturn
    \/ Deploy_ApplyMigrationReturn
    \/ Deploy_PrintSummary
    \/ Deploy_Finish

SpecDeploy == Init /\ [][NextDeploy]_vars

(***************************************************************************)
(* Part 2: the API probe scripts, src/testsprite_tests/TC001 .. TC010.     *)
(*                                                                         *)
(* Every script is a process of its own that runs one test function.  The  *)
(* service under test is the environment: each request is answered by a    *)
(* response (a status code and a body) or raises a transport error.  A     *)
(* body is described by what the script looks at:                          *)
(*   "empty"     no content          "nonjson"  content that is not JSON   *)
(*   "list"      a JSON array        "null"     JSON null                  *)
(*   "obj"       a JSON object without the fields the script reads         *)
(*   "obj_id"    a JSON object with an "id"                                *)
(* and by further tokens given with the script that reads them.            *)
(***************************************************************************)
ProbeStatuses == {200, 201, 400, 401, 403, 404, 409, 500}

TransportError == [kind |-> "exception", status |-> 0, body |-> None]

Answers(bodies) ==
    [kind : {"http"}, status : ProbeStatuses, body : bodies] \cup {TransportError}

AssertionError == "AssertionError"

\* any exception that is not an AssertionError: requests.RequestException,
\* a JSON decoding error, AttributeError, KeyError, ...
OtherError == "Exception"

\* the request goes out and resp comes back
Exchange(req, resp) == trace' = Append(trace, [req |-> req, resp |-> resp])

\* the statement completes; execution goes on at label
PassTo(label) ==
    /\ ppc' = label
    /\ UNCHANGED <<exc, failed>>

\* exceptions are raised and leave the block; execution goes on at label (the
\* finally block, or the end of the script).  An exception raised while
\* another one is handled or pending is chained to it.
Throw(chain, label) ==
    /\ ppc' = label
    /\ exc' = exc \o chain
    /\ UNCHANGED failed

\* a check of a status code or of a body fails and raises chain
CheckFails(check, chain, label) ==
    /\ ppc' = label
    /\ exc' = exc \o chain
    /\ failed' = Append(failed, [check |-> check, at |-> Len(trace) + 1])

\* an assert statement fails
AssertFails(check, label) == CheckFails(check, <<AssertionError>>, label)

\* an assert statement fails inside a try block whose except clause catches
\* the AssertionError and passes
AssertSwallowed(check, label) ==
    /\ ppc' = label
    /\ exc' = exc
    /\ failed' = Append(failed, [check |-> check, at |-> Len(trace) + 1])

\* the requests issued from finally blocks
CleanupRequests ==
    {"DELETE /api/patients/{id} cleanup", "DELETE /api/sessions/{id} cleanup",
     "DELETE /api/appointments/{id} cleanup"}

\* `if x:` on a local that holds None or an id
IsSet(x) == x = "id"

(***************************************************************************)
(* TC001_authentication_api_login_endpoint.py                              *)
(***************************************************************************)
\* lines 17-24.  response.json() raises a subclass of RequestException in
\* current versions of requests (caught at line 23, assert False) and a
\* ValueError in older ones (not caught).
TC001_ValidLogin ==
    /\ script = "TC001" /\ ppc = "valid_login"
    /\ \E resp \in Answers({"nonjson", "list", "obj"}) :
          /\ Exchange("POST /api/auth/login valid", resp)
          /\ IF resp.kind = "exception"
             THEN Throw(<<OtherError, AssertionError>>, "end")
             ELSE IF resp.status # 200
             THEN AssertFails(<<"valid_login", "status">>, "end")
             ELSE IF resp.body = "nonjson"
             THEN \E chain \in {<<OtherError>>, <<OtherError, AssertionError>>} :
                     Throw(chain, "end")
             ELSE IF resp.body # "obj"
             THEN AssertFails(<<"valid_login", "is_object">>, "end")
             ELSE PassTo("invalid_login")
    /\ UNCHANGED <<avars, script, plocals, created, deleted>>

\* the wrong-password login checked as loosely as the denied one
TC001_InvalidLogin_or403 ==
    /\ script = "TC001" /\ ppc = "invalid_login"
    /\ \E resp \in Answers({"obj"}) :
          /\ Exchange("POST /api/auth/login wrong password", resp)
          /\ IF resp.kind = "exception"
             THEN Throw(<<OtherError, AssertionError>>, "end")
             ELSE IF resp.status \notin {401, 403}
             THEN AssertFails(<<"invalid_login", "status">>, "end")
             ELSE PassTo("denied_login")
    /\ UNCHANGED <<avars, script, plocals, created, deleted>>

\* lines 31-35
TC001_InvalidLogin ==
    /\ script = "TC001" /\ ppc = "invalid_login"
    /\ \E resp \in Answers({"obj"}) :
          /\ Exchange("POST /api/auth/login wrong password", resp)
          /\ IF resp.kind = "exception"
             THEN Throw(<<OtherError, AssertionError>>, "end")
             ELSE IF resp.status # 401
             THEN AssertFails(<<"invalid_login", "status">>, "end")
             ELSE PassTo("denied_login")
    /\ UNCHANGED <<avars, script, plocals, created, deleted>>

\* lines 45-50
TC001_DeniedLogin ==
    /\ script = "TC001" /\ ppc = "denied_login"
    /\ \E resp \in Answers({"obj"}) :
          /\ Exchange("POST /api/auth/login denied user", resp)
          /\ IF resp.kind = "exception"
             THEN Throw(<<OtherError, AssertionError>>, "end")
             ELSE IF resp.status \notin {401, 403}
             THEN AssertFails(<<"denied_login", "status">>, "end")
             ELSE PassTo("end")
    /\ UNCHANGED <<avars, script, plocals, created, deleted>>

(***************************************************************************)
(* TC002_authentication_api_profile_endpoint.py                            *)
(* further bodies: "obj_email" the profile of the logged-in user,          *)
(* "obj_email_other" an object with another email, "obj_email_null" an     *)
(* object whose email is not a string.                                     *)
(***************************************************************************)
\* lines 20-24
TC002_Login ==
    /\ script = "TC002" /\ ppc = "login"
    /\ \E resp \in Answers({"obj"}) :
          /\ Exchange("POST /api/auth/login", resp)
          /\ IF resp.kind = "exception"
             THEN Throw(<<OtherError, AssertionError>>, "end")
             ELSE IF resp.status # 200
             THEN AssertFails(<<"login", "status">>, "end")
             ELSE PassTo("profile")
    /\ UNCHANGED <<avars, script, plocals, created, deleted>>

\* lines 27-40
TC002_Profile ==
    /\ script = "TC002" /\ ppc = "profile"
    /\ \E resp \in Answers({"nonjson", "list", "obj", "obj_email_null",
                            "obj_email_other", "obj_email"}) :
          /\ Exchange("GET /api/auth/profile", resp)
          /\ IF resp.kind = "exception"
             THEN Throw(<<OtherError, AssertionError>>, "end")
             ELSE IF resp.status # 200
             THEN AssertFails(<<"profile", "status">>, "end")
             ELSE IF resp.body = "nonjson"
             THEN CheckFails(<<"profile", "json">>, <<OtherError, AssertionError>>, "end")
             ELSE IF resp.body = "list"
             THEN AssertFails(<<"profile", "is_object">>, "end")
             ELSE IF resp.body = "obj"
             THEN AssertFails(<<"profile", "has_email">>, "end")
             ELSE IF resp.body = "obj_email_null"
             THEN Throw(<<OtherError>>, "end")
             ELSE IF resp.body = "obj_email_other"
             THEN AssertFails(<<"profile", "email">>, "end")
             ELSE PassTo("profile_unauth")
    /\ UNCHANGED <<avars, script, plocals, created, deleted>>

\* lines 43-49
TC002_ProfileUnauthenticated ==
    /\ script = "TC002" /\ ppc = "profile_unauth"
    /\ \E resp \in Answers({"obj"}) :
          /\ Exchange("GET /api/auth/profile no session", resp)
          /\ IF resp.kind = "exception"
             THEN Throw(<<OtherError, AssertionError>>, "end")
             ELSE IF resp.status # 401
             THEN AssertFails(<<"profile_unauth", "status">>, "end")
             ELSE PassTo("end")
    /\ UNCHANGED <<avars, script, plocals, created, deleted>>

(***************************************************************************)
(* TC003_patients_management_api_list_patients_endpoint.py                 *)
(* further bodies: "html" a body whose Content-Type is not JSON,           *)
(* "list_ok" a list the test accepts, "list_bad" a list with an entry the  *)
(* test rejects (a key missing, no match of the search, over the limit).   *)
(***************************************************************************)
TC003_Bodies == {"html", "nonjson", "null", "obj", "list_ok", "list_bad"}

\* get_json_or_assert, lines 11-19: "ok", or the check that fails
GetJsonOrAssert(body) ==
    IF body = "html" THEN "content_type"
    ELSE IF body = "nonjson" THEN "valid_json"
    ELSE IF body = "null" THEN "not_none"
    ELSE "ok"

\* the exceptions a failing check of get_json_or_assert raises
GetJsonChain(check) ==
    IF check = "valid_json" THEN <<OtherError, AssertionError>>
    ELSE <<AssertionError>>

\* a GET of the list that must answer 200 with a list the test accepts
TC003_ListStep(test, req, next) ==
    /\ script = "TC003" /\ ppc = test
    /\ \E resp \in Answers(TC003_Bodies) :
          /\ Exchange(req, resp)
          /\ IF resp.kind = "exception"
             THEN Throw(<<OtherError>>, "end")
             ELSE IF resp.status # 200
             THEN AssertFails(<<test, "status">>, "end")
             ELSE IF GetJsonOrAssert(resp.body) # "ok"
             THEN CheckFails(<<test, GetJsonOrAssert(resp.body)>>,
                             GetJsonChain(GetJsonOrAssert(resp.body)), "end")
             ELSE IF resp.body = "obj"
             THEN AssertFails(<<test, "is_list">>, "end")
             ELSE IF resp.body = "list_bad"
             THEN AssertFails(<<test, "entries">>, "end")
             ELSE PassTo(next)
    /\ UNCHANGED <<avars, script, plocals, created, deleted>>

\* lines 22-29
TC003_List == TC003_ListStep("test1", "GET /api/patients", "test2")

\* lines 32-41
TC003_Search == TC003_ListStep("test2", "GET /api/patients search", "test3")

\* lines 44-49
TC003_Page == TC003_ListStep("test3", "GET /api/patients page", "test4")

\* lines 52-60: 200 or 400; a 200 must carry a list, whatever its entries
TC003_InvalidPage ==
    /\ script = "TC003" /\ ppc = "test4"
    /\ \E resp \in Answers(TC003_Bodies) :
          /\ Exchange("GET /api/patients invalid page", resp)
          /\ IF resp.kind = "exception"
             THEN Throw(<<OtherError>>, "end")
             ELSE IF resp.status \notin {200, 400}
             THEN AssertFails(<<"test4", "status">>, "end")
             ELSE IF resp.status = 400
             THEN PassTo("test5")
             ELSE IF GetJsonOrAssert(resp.body) # "ok"
             THEN CheckFails(<<"test4", GetJsonOrAssert(resp.body)>>,
                             GetJsonChain(GetJsonOrAssert(resp.body)), "end")
             ELSE IF resp.body = "obj"
             THEN AssertFails(<<"test4", "is_list">>, "end")
             ELSE PassTo("test5")
    /\ UNCHANGED <<avars, script, plocals, created, deleted>>

\* lines 63-71
TC003_SearchPage == TC003_ListStep("test5", "GET /api/patients search page", "end")

(***************************************************************************)
(* TC004_patients_management_api_create_patient_endpoint.py                *)
(***************************************************************************)
\* lines 67-77: the finally block has something to do when the list is not empty
TC004_Finally(loc) == IF loc.created_patient_ids = <<>> THEN "end" ELSE "cleanup"

\* lines 21-36
TC004_Create ==
    /\ script = "TC004" /\ ppc = "create"
    /\ \E resp \in Answers({"empty", "nonjson", "obj", "obj_id"}) :
          /\ Exchange("POST /api/patients", resp)
          /\ IF resp.kind = "exception"
             THEN Throw(<<OtherError>>, TC004_Finally(plocals))
                  /\ UNCHANGED <<plocals, created>>
             ELSE IF resp.status # 201
             THEN AssertFails(<<"create", "status">>, TC004_Finally(plocals))
                  /\ UNCHANGED <<plocals, created>>
             ELSE /\ created' = IF resp.body = "obj_id"
                                THEN created \cup {"patient"} ELSE created
                  /\ IF resp.body = "empty"
                     THEN AssertFails(<<"create", "body">>, TC004_Finally(plocals))
                          /\ UNCHANGED plocals
                     ELSE IF resp.body = "nonjson"
                     THEN Throw(<<OtherError>>, TC004_Finally(plocals))
                          /\ UNCHANGED plocals
                     ELSE IF resp.body = "obj"
                     THEN AssertFails(<<"create", "id">>, TC004_Finally(plocals))
                          /\ plocals' = [plocals EXCEPT !.patient_id = None]
                     ELSE /\ plocals' = [plocals EXCEPT
                                           !.patient_id = "id",
                                           !.created_patient_ids = Append(@, "id")]
                          /\ PassTo("invalid_cpf")
    /\ UNCHANGED <<avars, script, deleted>>

\* a POST that the service has to refuse with a status of 400 or more
TC004_Refused(at, req, next) ==
    /\ script = "TC004" /\ ppc = at
    /\ \E resp \in Answers({"obj"}) :
          /\ Exchange(req, resp)
          /\ IF resp.kind = "exception"
             THEN Throw(<<OtherError>>, TC004_Finally(plocals))
             ELSE IF resp.status < 400
             THEN AssertFails(<<at, "status">>, TC004_Finally(plocals))
             ELSE PassTo(next)
    /\ UNCHANGED <<avars, script, plocals, created, deleted>>

\* lines 39-51
TC004_InvalidCpf ==
    TC004_Refused("invalid_cpf", "POST /api/patients invalid cpf", "duplicate_cpf")

\* lines 54-65, then the finally block
TC004_DuplicateCpf ==
    TC004_Refused("duplicate_cpf", "POST /api/patients duplicate cpf",
                  TC004_Finally(plocals))

\* lines 69-77: one turn of the cleanup loop; any exception is passed over
TC004_Cleanup ==
    /\ script = "TC004" /\ ppc = "cleanup"
    /\ \E resp \in Answers({"obj"}) :
          Exchange("DELETE /api/patients/{id} cleanup", resp)
    /\ deleted' = deleted \cup {"patient"}
    /\ plocals' = [plocals EXCEPT !.loop = @ + 1]
    /\ PassTo(IF plocals'.loop < Len(plocals.created_patient_ids)
              THEN "cleanup" ELSE "end")
    /\ UNCHANGED <<avars, script, created>>

(***************************************************************************)
(* TC005_patients_management_api_get_patient_details_endpoint.py           *)
(* further bodies: "obj_match" the patient as created, "obj_other" an      *)
(* object with every field and another value in one of them.               *)
(***************************************************************************)
\* lines 57-66: if patient_id
TC005_Finally(loc) == IF IsSet(loc.patient_id) THEN "cleanup" ELSE "end"

\* lines 23-33
TC005_Create ==
    /\ script = "TC005" /\ ppc = "create"
    /\ \E resp \in Answers({"nonjson", "obj", "obj_id"}) :
          /\ Exchange("POST /api/patients", resp)
          /\ IF resp.kind = "exception"
             THEN Throw(<<OtherError>>, TC005_Finally(plocals))
                  /\ UNCHANGED <<plocals, created>>
             ELSE IF resp.status # 201
             THEN AssertFails(<<"create", "status">>, TC005_Finally(plocals))
                  /\ UNCHANGED <<plocals, created>>
             ELSE /\ created' = IF resp.body = "obj_id"
                                THEN created \cup {"patient"} ELSE created
                  /\ IF resp.body = "nonjson"
                     THEN Throw(<<OtherError>>, TC005_Finally(plocals))
                          /\ UNCHANGED plocals
                     ELSE IF resp.body = "obj"
                     THEN AssertFails(<<"create", "id">>, TC005_Finally(plocals))
                          /\ UNCHANGED plocals
                     ELSE /\ plocals' = [plocals EXCEPT !.patient_id = "id"]
                          /\ PassTo("get")
    /\ UNCHANGED <<avars, script, deleted>>

\* lines 36-55
TC005_Get ==
    /\ script = "TC005" /\ ppc = "get"
    /\ \E resp \in Answers({"nonjson", "obj", "obj_other", "obj_match"}) :
          /\ Exchange("GET /api/patients/{id}", resp)
          /\ IF resp.kind = "exception"
             THEN Throw(<<OtherError>>, TC005_Finally(plocals))
             ELSE IF resp.status # 200
             THEN AssertFails(<<"get", "status">>, TC005_Finally(plocals))
             ELSE IF resp.body = "nonjson"
             THEN Throw(<<OtherError>>, TC005_Finally(plocals))
             ELSE IF resp.body = "obj"
             THEN AssertFails(<<"get", "fields">>, TC005_Finally(plocals))
             ELSE IF resp.body = "obj_other"
             THEN AssertFails(<<"get", "values">>, TC005_Finally(plocals))
             ELSE PassTo(TC005_Finally(plocals))
    /\ UNCHANGED <<avars, script, plocals, created, deleted>>

\* lines 59-66: the DELETE is not guarded, its status is asserted
TC005_Cleanup ==
    /\ script = "TC005" /\ ppc = "cleanup"
    /\ \E resp \in Answers({"obj"}) :
          /\ Exchange("DELETE /api/patients/{id} cleanup", resp)
          /\ IF resp.kind = "exception"
             THEN Throw(<<OtherError>>, "end")
             ELSE IF resp.status # 200
             THEN AssertFails(<<"cleanup", "status">>, "end")
             ELSE PassTo("end")
    /\ deleted' = deleted \cup {"patient"}
    /\ UNCHANGED <<avars, script, plocals, created>>

(***************************************************************************)
(* TC006_patients_management_api_update_patient_endpoint.py                *)
(* further body: "obj_patient_id" an object with "patient_id" and no "id". *)
(***************************************************************************)
\* lines 92-99: if patient_id
TC006_Finally(loc) == IF IsSet(loc.patient_id) THEN "cleanup" ELSE "end"

\* lines 20-29
TC006_Create ==
    /\ script = "TC006" /\ ppc = "create"
    /\ \E resp \in Answers({"nonjson", "obj", "obj_id", "obj_patient_id"}) :
          /\ Exchange("POST /api/patients", resp)
          /\ IF resp.kind = "exception"
             THEN Throw(<<OtherError>>, TC006_Finally(plocals))
                  /\ UNCHANGED <<plocals, created>>
             ELSE IF resp.status # 201
             THEN AssertFails(<<"create", "status">>, TC006_Finally(plocals))
                  /\ UNCHANGED <<plocals, created>>
             ELSE /\ created' = IF resp.body \in {"obj_id", "obj_patient_id"}
                                THEN created \cup {"patient"} ELSE created
                  /\ IF resp.body = "nonjson"
                     THEN Throw(<<OtherError>>, TC006_Finally(plocals))
                          /\ UNCHANGED plocals
                     ELSE IF resp.body = "obj"
                     THEN AssertFails(<<"create", "id">>, TC006_Finally(plocals))
                          /\ UNCHANGED plocals
                     ELSE /\ plocals' = [plocals EXCEPT !.patient_id = "id"]
                          /\ PassTo("update")
    /\ UNCHANGED <<avars, script, deleted>>

\* lines 41-54: a body without one of the fields raises KeyError
TC006_Update ==
    /\ script = "TC006" /\ ppc = "update"
    /\ \E resp \in Answers({"nonjson", "obj", "obj_other", "obj_match"}) :
          /\ Exchange("PUT /api/patients/{id}", resp)
          /\ IF resp.kind = "exception"
             THEN Throw(<<OtherError>>, TC006_Finally(plocals))
             ELSE IF resp.status # 200
             THEN AssertFails(<<"update", "status">>, TC006_Finally(plocals))
             ELSE IF resp.body \in {"nonjson", "obj"}
             THEN Throw(<<OtherError>>, TC006_Finally(plocals))
             ELSE IF resp.body = "obj_other"
             THEN AssertFails(<<"update", "values">>, TC006_Finally(plocals))
             ELSE PassTo("invalid_update")
    /\ UNCHANGED <<avars, script, plocals, created, deleted>>

\* a PUT that the service has to refuse with a 4xx status
TC006_Refused(at, req, next) ==
    /\ script = "TC006" /\ ppc = at
    /\ \E resp \in Answers({"obj"}) :
          /\ Exchange(req, resp)
          /\ IF resp.kind = "exception"
             THEN Throw(<<OtherError>>, TC006_Finally(plocals))
             ELSE IF ~(resp.status >= 400 /\ resp.status < 500)
             THEN AssertFails(<<at, "status">>, TC006_Finally(plocals))
             ELSE PassTo(next)
    /\ UNCHANGED <<avars, script, plocals, created, deleted>>

\* lines 57-72
TC006_InvalidUpdate ==
    TC006_Refused("invalid_update", "PUT /api/patients/{id} no name", "invalid_cpf")

\* lines 75-90, then the finally block
TC006_InvalidCpf ==
    TC006_Refused("invalid_cpf", "PUT /api/patients/{id} invalid cpf",
                  TC006_Finally(plocals))

\* lines 94-99: the DELETE is not guarded, its status is not looked at
TC006_Cleanup ==
    /\ script = "TC006" /\ ppc = "cleanup"
    /\ \E resp \in Answers({"obj"}) :
          /\ Exchange("DELETE /api/patients/{id} cleanup", resp)
          /\ IF resp.kind = "exception"
             THEN Throw(<<OtherError>>, "end")
             ELSE PassTo("end")
    /\ deleted' = deleted \cup {"patient"}
    /\ UNCHANGED <<avars, script, plocals, created>>

(***************************************************************************)
(* TC007_patients_management_api_archive_patient_endpoint.py               *)
(* further bodies of the GET: "obj_active" active is true, "obj_inactive"  *)
(* active is false, "obj_active_null" active is null, "obj_archived"       *)
(* archived is true; "obj" has neither key.                                *)
(***************************************************************************)
\* lines 79-89: if patient_id
TC007_Finally(loc) == IF IsSet(loc.patient_id) THEN "cleanup" ELSE "end"

\* login_and_set_session, lines 19-26, called at line 30 outside the try
TC007_Login ==
    /\ script = "TC007" /\ ppc = "login"
    /\ \E resp \in Answers({"obj"}) :
          /\ Exchange("POST /api/auth/login", resp)
          /\ IF resp.kind = "exception"
             THEN Throw(<<OtherError>>, "end")
             ELSE IF resp.status # 200
             THEN AssertFails(<<"login", "status">>, "end")
             ELSE PassTo("create")
    /\ UNCHANGED <<avars, script, plocals, created, deleted>>

\* lines 43-51
TC007_Create ==
    /\ script = "TC007" /\ ppc = "create"
    /\ \E resp \in Answers({"nonjson", "obj", "obj_id"}) :
          /\ Exchange("POST /api/patients", resp)
          /\ IF resp.kind = "exception"
             THEN Throw(<<OtherError>>, TC007_Finally(plocals))
                  /\ UNCHANGED <<plocals, created>>
             ELSE IF resp.status # 201
             THEN AssertFails(<<"create", "status">>, TC007_Finally(plocals))
                  /\ UNCHANGED <<plocals, created>>
             ELSE /\ created' = IF resp.body = "obj_id"
                                THEN created \cup {"patient"} ELSE created
                  /\ IF resp.body = "nonjson"
                     THEN Throw(<<OtherError>>, TC007_Finally(plocals))
                          /\ UNCHANGED plocals
                     ELSE IF resp.body = "obj"
                     THEN AssertFails(<<"create", "id">>, TC007_Finally(plocals))
                          /\ UNCHANGED plocals
                     ELSE /\ plocals' = [plocals EXCEPT !.patient_id = "id"]
                          /\ PassTo("archive")
    /\ UNCHANGED <<avars, script, deleted>>

\* lines 54-59
TC007_Archive ==
    /\ script = "TC007" /\ ppc = "archive"
    /\ \E resp \in Answers({"obj"}) :
          /\ Exchange("DELETE /api/patients/{id}", resp)
          /\ IF resp.kind = "exception"
             THEN Throw(<<OtherError>>, TC007_Finally(plocals))
             ELSE IF resp.status # 200
             THEN AssertFails(<<"archive", "status">>, TC007_Finally(plocals))
             ELSE PassTo("get")
    /\ deleted' = deleted \cup {"patient"}
    /\ UNCHANGED <<avars, script, plocals, created>>

\* line 76: assert not active or archived, with the defaults of lines 74-75
TC007_StillActive(body) == body \in {"obj", "obj_active"}

\* lines 62-78
TC007_Get ==
    /\ script = "TC007" /\ ppc = "get"
    /\ \E resp \in Answers({"nonjson", "list", "obj", "obj_active", "obj_inactive",
                            "obj_active_null", "obj_archived"}) :
          /\ Exchange("GET /api/patients/{id}", resp)
          /\ IF resp.kind = "exception"
             THEN Throw(<<OtherError>>, TC007_Finally(plocals))
             ELSE IF resp.status = 404
             THEN PassTo(TC007_Finally(plocals))
             ELSE IF resp.status # 200
             THEN AssertFails(<<"get", "status">>, TC007_Finally(plocals))
             ELSE IF resp.body \in {"nonjson", "list"}
             THEN Throw(<<OtherError>>, TC007_Finally(plocals))
             ELSE IF TC007_StillActive(resp.body)
             THEN AssertFails(<<"get", "archived">>, TC007_Finally(plocals))
             ELSE PassTo(TC007_Finally(plocals))
    /\ UNCHANGED <<avars, script, plocals, created, deleted>>

\* lines 81-89: any exception of the DELETE is passed over
TC007_Cleanup ==
    /\ script = "TC007" /\ ppc = "cleanup"
    /\ \E resp \in Answers({"obj"}) :
          Exchange("DELETE /api/patients/{id} cleanup", resp)
    /\ deleted' = deleted \cup {"patient"}
    /\ PassTo("end")
    /\ UNCHANGED <<avars, script, plocals, created>>

(***************************************************************************)
(* TC008_appointments_management_api_create_appointment_endpoint.py        *)
(* further body of the login: "obj_token" an object with a token.          *)
(***************************************************************************)
\* lines 124-128: if appointment_id ..., if patient_id ...
TC008_Finally(loc) ==
    IF IsSet(loc.appointment_id) THEN "cleanup_appointment"
    ELSE IF IsSet(loc.patient_id) THEN "cleanup_patient"
    ELSE "end"

\* lines 24-39, outside the try; a body without a token leaves token None
TC008_Login ==
    /\ script = "TC008" /\ ppc = "login"
    /\ \E resp \in Answers({"nonjson", "obj", "obj_token"}) :
          /\ Exchange("POST /api/auth/login", resp)
          /\ IF resp.kind = "exception"
             THEN Throw(<<OtherError>>, "end") /\ UNCHANGED plocals
             ELSE IF resp.status # 200
             THEN AssertFails(<<"login", "status">>, "end") /\ UNCHANGED plocals
             ELSE /\ plocals' = [plocals EXCEPT !.token = resp.body = "obj_token"]
                  /\ PassTo("create_patient")
    /\ UNCHANGED <<avars, script, created, deleted>>

\* a POST that has to answer 201 with an id, which goes to the local var
TC008_Creates(at, req, var, resource, next) ==
    /\ script = "TC008" /\ ppc = at
    /\ \E resp \in Answers({"nonjson", "obj", "obj_id"}) :
          /\ Exchange(req, resp)
          /\ IF resp.kind = "exception"
             THEN Throw(<<OtherError>>, TC008_Finally(plocals))
                  /\ UNCHANGED <<plocals, created>>
             ELSE IF resp.status # 201
             THEN AssertFails(<<at, "status">>, TC008_Finally(plocals))
                  /\ UNCHANGED <<plocals, created>>
             ELSE /\ created' = IF resp.body = "obj_id"
                                THEN created \cup {resource} ELSE created
                  /\ IF resp.body = "nonjson"
                     THEN Throw(<<OtherError>>, TC008_Finally(plocals))
                          /\ UNCHANGED plocals
                     ELSE IF resp.body = "obj"
                     THEN AssertFails(<<at, "id">>, TC008_Finally(plocals))
                          /\ UNCHANGED plocals
                     ELSE /\ plocals' = [plocals EXCEPT ![var] = "id"]
                          /\ PassTo(next)
    /\ UNCHANGED <<avars, script, deleted>>

\* lines 69-75
TC008_CreatePatient ==
    TC008_Creates("create_patient", "POST /api/patients", "patient_id",
                  "patient", "create_appointment")

\* lines 85-92
TC008_CreateAppointment ==
    TC008_Creates("create_appointment", "POST /api/appointments",
                  "appointment_id", "appointment", "conflict")

\* a POST that the service has to refuse with one of the statuses
TC008_Refused(at, req, statuses, next) ==
    /\ script = "TC008" /\ ppc = at
    /\ \E resp \in Answers({"obj"}) :
          /\ Exchange(req, resp)
          /\ IF resp.kind = "exception"
             THEN Throw(<<OtherError>>, TC008_Finally(plocals))
             ELSE IF resp.status \notin statuses
             THEN AssertFails(<<at, "status">>, TC008_Finally(plocals))
             ELSE PassTo(next)
    /\ UNCHANGED <<avars, script, plocals, created, deleted>>

\* lines 100-104
TC008_Conflict ==
    TC008_Refused("conflict", "POST /api/appointments conflict", {400, 409},
                  "missing_patient")

\* lines 109-113
TC008_MissingPatient ==
    TC008_Refused("missing_patient", "POST /api/appointments no patient_id",
                  {400}, "missing_date")

\* lines 118-122, then the finally block
TC008_MissingDate ==
    TC008_Refused("missing_date", "POST /api/appointments no date", {400},
                  TC008_Finally(plocals))

\* lines 125-126: auth_delete is not guarded; an exception leaves the finally
\* block before line 127
TC008_CleanupAppointment ==
    /\ script = "TC008" /\ ppc = "cleanup_appointment"
    /\ \E resp \in Answers({"obj"}) :
          /\ Exchange("DELETE /api/appointments/{id} cleanup", resp)
          /\ IF resp.kind = "exception"
             THEN Throw(<<OtherError>>, "end")
             ELSE PassTo(IF IsSet(plocals.patient_id) THEN "cleanup_patient"
                         ELSE "end")
    /\ deleted' = deleted \cup {"appointment"}
    /\ UNCHANGED <<avars, script, plocals, created>>

\* lines 127-128
TC008_CleanupPatient ==
    /\ script = "TC008" /\ ppc = "cleanup_patient"
    /\ \E resp \in Answers({"obj"}) :
          /\ Exchange("DELETE /api/patients/{id} cleanup", resp)
          /\ IF resp.kind = "exception"
             THEN Throw(<<OtherError>>, "end")
             ELSE PassTo("end")
    /\ deleted' = deleted \cup {"patient"}
    /\ UNCHANGED <<avars, script, plocals, created>>

(***************************************************************************)
(* TC009_body_mapping_api_register_pain_point_endpoint.py                  *)
(* patient_id is bound only once line 29 has run.  A pain point is part of *)
(* its session (POST /api/sessions/{id}/pain-points) and is not counted as *)
(* a resource of its own.                                                  *)
(***************************************************************************)
\* lines 122-141: if session_id ..., if 'patient_id' in locals() ...
TC009_Finally(loc) ==
    IF IsSet(loc.session_id) THEN "cleanup_session"
    ELSE IF loc.patient_id # Unbound THEN "cleanup_patient"
    ELSE "end"

\* a POST that has to answer 201 with an id, which goes to the local var; the
\* local is assigned (None when the body has no id) before the assert on it
TC009_Creates(at, req, var, resource, next) ==
    /\ script = "TC009" /\ ppc = at
    /\ \E resp \in Answers({"nonjson", "obj", "obj_id"}) :
          /\ Exchange(req, resp)
          /\ IF resp.kind = "exception"
             THEN Throw(<<OtherError>>, TC009_Finally(plocals))
                  /\ UNCHANGED <<plocals, created>>
             ELSE IF resp.status # 201
             THEN AssertFails(<<at, "status">>, TC009_Finally(plocals))
                  /\ UNCHANGED <<plocals, created>>
             ELSE /\ created' = IF resp.body = "obj_id"
                                THEN created \cup {resource} ELSE created
                  /\ IF resp.body = "nonjson"
                     THEN Throw(<<OtherError>>, TC009_Finally(plocals))
                          /\ UNCHANGED plocals
                     ELSE IF resp.body = "obj"
                     THEN /\ plocals' = [plocals EXCEPT ![var] = None]
                          /\ AssertFails(<<at, "id">>, TC009_Finally(plocals'))
                     ELSE /\ plocals' = [plocals EXCEPT ![var] = "id"]
                          /\ PassTo(next)
    /\ UNCHANGED <<avars, script, deleted>>

\* lines 21-30
TC009_CreatePatient ==
    TC009_Creates("create_patient", "POST /api/patients", "patient_id",
                  "patient", "create_session")

\* lines 38-47
TC009_CreateSession ==
    TC009_Creates("create_session", "POST /api/sessions", "session_id",
                  "session", "pain_point")

\* lines 56-66: "obj_match" echoes body_region and pain_intensity
TC009_PainPoint ==
    /\ script = "TC009" /\ ppc = "pain_point"
    /\ \E resp \in Answers({"nonjson", "obj", "obj_match"}) :
          /\ Exchange("POST /api/sessions/{id}/pain-points", resp)
          /\ IF resp.kind = "exception"
             THEN Throw(<<OtherError>>, TC009_Finally(plocals))
             ELSE IF resp.status # 201
             THEN AssertFails(<<"pain_point", "status">>, TC009_Finally(plocals))
             ELSE IF resp.body = "nonjson"
             THEN Throw(<<OtherError>>, TC009_Finally(plocals))
             ELSE IF resp.body = "obj"
             THEN AssertFails(<<"pain_point", "values">>, TC009_Finally(plocals))
             ELSE PassTo("invalid_low")
    /\ UNCHANGED <<avars, script, plocals, created, deleted>>

\* a POST that the service has to refuse with a status of 400 or more
TC009_Refused(at, req, next) ==
    /\ script = "TC009" /\ ppc = at
    /\ \E resp \in Answers({"obj"}) :
          /\ Exchange(req, resp)
          /\ IF resp.kind = "exception"
             THEN Throw(<<OtherError>>, TC009_Finally(plocals))
             ELSE IF resp.status < 400
             THEN AssertFails(<<at, "status">>, TC009_Finally(plocals))
             ELSE PassTo(next)
    /\ UNCHANGED <<avars, script, plocals, created, deleted>>

\* lines 73-80
TC009_InvalidLow ==
    TC009_Refused("invalid_low", "POST pain-points intensity -1", "invalid_high")

\* lines 87-94
TC009_InvalidHigh ==
    TC009_Refused("invalid_high", "POST pain-points intensity 11", "missing_region")

\* lines 100-107
TC009_MissingRegion ==
    TC009_Refused("missing_region", "POST pain-points no body_region",
                  "missing_intensity")

\* lines 113-120, then the finally block
TC009_MissingIntensity ==
    TC009_Refused("missing_intensity", "POST pain-points no pain_intensity",
                  TC009_Finally(plocals))

\* lines 124-132: any exception of the DELETE is passed over
TC009_CleanupSession ==
    /\ script = "TC009" /\ ppc = "cleanup_session"
    /\ \E resp \in Answers({"obj"}) :
          Exchange("DELETE /api/sessions/{id} cleanup", resp)
    /\ deleted' = deleted \cup {"session"}
    /\ PassTo(IF plocals.patient_id # Unbound THEN "cleanup_patient" ELSE "end")
    /\ UNCHANGED <<avars, script, plocals, created>>

\* lines 133-141: the DELETE goes out also when patient_id is None
TC009_CleanupPatient ==
    /\ script = "TC009" /\ ppc = "cleanup_patient"
    /\ \E resp \in Answers({"obj"}) :
          Exchange("DELETE /api/patients/{id} cleanup", resp)
    /\ deleted' = IF IsSet(plocals.patient_id)
                  THEN deleted \cup {"patient"} ELSE deleted
    /\ PassTo("end")
    /\ UNCHANGED <<avars, script, plocals, created>>

(***************************************************************************)
(* TC010_lgpd_compliance_api_export_data_endpoint.py                       *)
(* further bodies: "good" an export the format's check accepts,            *)
(* "obj_keyword" an error object that names the missing patient_id,        *)
(* "empty_obj" the JSON object {}, "obj_patient_id" an object with the key *)
(* patient_id; "obj" is a non-empty object without the keys looked for.    *)
(***************************************************************************)
\* lines 113-122: if patient_id
TC010_Finally(loc) == IF IsSet(loc.patient_id) THEN "cleanup" ELSE "end"

\* line 47
TC010_Formats == <<"json", "csv", "pdf">>

\* lines 18-24, outside the try
TC010_Login ==
    /\ script = "TC010" /\ ppc = "login"
    /\ \E resp \in Answers({"obj"}) :
          /\ Exchange("POST /api/auth/login", resp)
          /\ IF resp.kind = "exception"
             THEN Throw(<<OtherError>>, "end")
             ELSE IF resp.status # 200
             THEN AssertFails(<<"login", "status">>, "end")
             ELSE PassTo("create")
    /\ UNCHANGED <<avars, script, plocals, created, deleted>>

\* lines 36-44
TC010_Create ==
    /\ script = "TC010" /\ ppc = "create"
    /\ \E resp \in Answers({"nonjson", "obj", "obj_id"}) :
          /\ Exchange("POST /api/patients", resp)
          /\ IF resp.kind = "exception"
             THEN Throw(<<OtherError>>, TC010_Finally(plocals))
                  /\ UNCHANGED <<plocals, created>>
             ELSE IF resp.status # 201
             THEN AssertFails(<<"create", "status">>, TC010_Finally(plocals))
                  /\ UNCHANGED <<plocals, created>>
             ELSE /\ created' = IF resp.body = "obj_id"
                                THEN created \cup {"patient"} ELSE created
                  /\ IF resp.body = "nonjson"
                     THEN Throw(<<OtherError>>, TC010_Finally(plocals))
                          /\ UNCHANGED plocals
                     ELSE IF resp.body = "obj"
                     THEN AssertFails(<<"create", "id">>, TC010_Finally(plocals))
                          /\ UNCHANGED plocals
                     ELSE /\ plocals' = [plocals EXCEPT !.patient_id = "id",
                                                        !.loop = 1]
                          /\ PassTo("export")
    /\ UNCHANGED <<avars, script, deleted>>

\* lines 47-69: one turn of the loop over the formats
TC010_Export ==
    /\ script = "TC010" /\ ppc = "export"
    /\ LET format == TC010_Formats[plocals.loop]
       IN \E resp \in Answers({"nonjson", "list", "obj", "good"}) :
          /\ Exchange("POST /api/lgpd/export", resp)
          /\ IF resp.kind = "exception"
             THEN Throw(<<OtherError>>, TC010_Finally(plocals))
                  /\ UNCHANGED plocals
             ELSE IF resp.status # 200
             THEN AssertFails(<<"export", "status">>, TC010_Finally(plocals))
                  /\ UNCHANGED plocals
             ELSE IF format = "json" /\ resp.body = "nonjson"
             THEN Throw(<<OtherError>>, TC010_Finally(plocals))
                  /\ UNCHANGED plocals
             ELSE IF resp.body # "good"
             THEN AssertFails(<<"export", format>>, TC010_Finally(plocals))
                  /\ UNCHANGED plocals
             ELSE /\ plocals' = [plocals EXCEPT !.loop = @ + 1]
                  /\ PassTo(IF plocals.loop < Len(TC010_Formats)
                            THEN "export" ELSE "missing_id")
    /\ UNCHANGED <<avars, script, created, deleted>>

\* lines 76-88: the assert on the error message is inside a try whose except
\* Exception clause passes, so its failure is caught
TC010_MissingId ==
    /\ script = "TC010" /\ ppc = "missing_id"
    /\ \E resp \in Answers({"nonjson", "obj", "obj_keyword"}) :
          /\ Exchange("POST /api/lgpd/export no patient_id", resp)
          /\ IF resp.kind = "exception"
             THEN Throw(<<OtherError>>, TC010_Finally(plocals))
             ELSE IF resp.status < 400
             THEN AssertFails(<<"missing_id", "status">>, TC010_Finally(plocals))
             ELSE IF resp.body = "obj"
             THEN AssertSwallowed(<<"missing_id", "message">>, "invalid_id")
             ELSE PassTo("invalid_id")
    /\ UNCHANGED <<avars, script, plocals, created, deleted>>

\* line 107: assert not content or "patient_id" not in content
TC010_NoData(body) == body \in {"empty_obj", "obj"}

\* lines 96-111: a failure inside the try becomes assert False at line 109
TC010_InvalidId ==
    /\ script = "TC010" /\ ppc = "invalid_id"
    /\ \E resp \in Answers({"nonjson", "empty_obj", "obj", "obj_patient_id"}) :
          /\ Exchange("POST /api/lgpd/export unknown patient_id", resp)
          /\ IF resp.kind = "exception"
             THEN Throw(<<OtherError>>, TC010_Finally(plocals))
             ELSE IF resp.status = 200
             THEN IF resp.body = "nonjson"
                  THEN CheckFails(<<"invalid_id", "json">>,
                                  <<OtherError, AssertionError>>,
                                  TC010_Finally(plocals))
                  ELSE IF ~TC010_NoData(resp.body)
                  THEN CheckFails(<<"invalid_id", "no_data">>,
                                  <<AssertionError, AssertionError>>,
                                  TC010_Finally(plocals))
                  ELSE PassTo(TC010_Finally(plocals))
             ELSE IF resp.status < 400
             THEN AssertFails(<<"invalid_id", "status">>, TC010_Finally(plocals))
             ELSE PassTo(TC010_Finally(plocals))
    /\ UNCHANGED <<avars, script, plocals, created, deleted>>

\* lines 115-122: the DELETE is not guarded, its status is asserted
TC010_Cleanup ==
    /\ script = "TC010" /\ ppc = "cleanup"
    /\ \E resp \in Answers({"obj"}) :
          /\ Exchange("DELETE /api/patients/{id} cleanup", resp)
          /\ IF resp.kind = "exception"
             THEN Throw(<<OtherError>>, "end")
             ELSE IF resp.status # 200
             THEN AssertFails(<<"cleanup", "status">>, "end")
             ELSE PassTo("end")
    /\ deleted' = deleted \cup {"patient"}
    /\ UNCHANGED <<avars, script, plocals, created>>

(***************************************************************************)
(* A probe run: one of the scripts, from the call of its test function.    *)
(***************************************************************************)
Scripts ==
    {"TC001", "TC002", "TC003", "TC004", "TC005", "TC006", "TC007", "TC008",
     "TC009", "TC010"}

\* the first request of each script
FirstStep(s) ==
    CASE s = "TC001" -> "valid_login"
      [] s = "TC003" -> "test1"
      [] s \in {"TC002", "TC007", "TC008", "TC010"} -> "login"
      [] s = "TC009" -> "create_patient"
      [] OTHER -> "create"

\* the locals as the statements before the first request leave them
FirstLocals(s) ==
    [NoLocals EXCEPT
        !.patient_id = IF s \in {"TC005", "TC006", "TC007", "TC008", "TC010"}
                       THEN None ELSE Unbound,
        !.session_id = IF s = "TC009" THEN None ELSE Unbound,
        !.appointment_id = IF s = "TC008" THEN None ELSE Unbound]

InitProbe ==
    /\ InitApplier
    /\ script \in Scripts
    /\ ppc = FirstStep(script)
    /\ exc = <<>>
    /\ plocals = FirstLocals(script)
    /\ trace = <<>>
    /\ created = {}
    /\ deleted = {}
    /\ failed = <<>>

NextProbe ==
    \/ TC001_ValidLogin
    \/ TC001_InvalidLogin
    \/ TC001_DeniedLogin
    \/ TC002_Login
    \/ TC002_Profile
    \/ TC002_ProfileUnauthenticated
    \/ TC003_List
    \/ TC003_Search
    \/ TC003_Page
    \/ TC003_InvalidPage
    \/ TC003_SearchPage
    \/ TC004_Create
    \/ TC004_InvalidCpf
    \/ TC004_DuplicateCpf
    \/ TC004_Cleanup
    \/ TC005_Create
    \/ TC005_Get
    \/ TC005_Cleanup
    \/ TC006_Create
    \/ TC006_Update
    \/ TC006_InvalidUpdate
    \/ TC006_InvalidCpf
    \/ TC006_Cleanup
    \/ TC007_Login
    \/ TC007_Create
    \/ TC007_Archive
    \/ TC007_Get
    \/ TC007_Cleanup
    \/ TC008_Login
    \/ TC008_CreatePatient
    \/ TC008_CreateAppointment
    \/ TC008_Conflict
    \/ TC008_MissingPatient
    \/ TC008_MissingDate
    \/ TC008_CleanupAppointment
    \/ TC008_CleanupPatient
    \/ TC009_CreatePatient
    \/ TC009_CreateSession
    \/ TC009_PainPoint
    \/ TC009_InvalidLow
    \/ TC009_InvalidHigh
    \/ TC009_MissingRegion
    \/ TC009_MissingIntensity
    \/ TC009_CleanupSession
    \/ TC009_CleanupPatient
    \/ TC010_Login
    \/ TC010_Create
    \/ TC010_Export
    \/ TC010_MissingId
    \/ TC010_InvalidId
    \/ TC010_Cleanup

SpecProbe == InitProbe /\ [][NextProbe]_vars

(***************************************************************************)
(* Properties of the migration applier.                                    *)
(***************************************************************************)
\* apply_migration has returned for the current migration
Returned == pc = "sleep" /\ hist[mig].called

Ended == pc \in {"done", "exited", "crashed"}

\* the statements sent to an endpoint for the current migration, in order
SentTo(ep) ==
    LET IsEp(r) == r.ep = ep
        sel == SelectSeq(reqlog, IsEp)
    IN  [k \in 1..Len(sel) |-> sel[k].sql]

RequestsFor(ep, idx) ==
    {n \in 1..Len(reqlog) : reqlog[n].ep = ep /\ reqlog[n].idx = idx}

\* the statements of a text as the specification defines them
SpecStatements(text) == SelectSeq(StripAll(SplitOn(text, ";")), IsStatement)

\* C1: apply_migration returns true if and only if every statement of the
\* migration (every non-empty, non-comment segment) returned success from
\* the primary or the secondary endpoint.
C1_ReturnsTrueIffEveryStatementSucceeded ==
    Returned => (hist[mig].ret <=> EveryStatementSucceeded)

\* C2: the statements apply_migration submits are exactly the non-empty,
\* non-comment segments of the text, in their order, each one trimmed.
C2_SubmitsExactlyTheStatements ==
    Returned => SentTo("rpc") = SpecStatements(sql_content.text)

\* C3: a missing file does not stop the run: nothing is submitted for that
\* migration, it is not counted as applied, and when the run ends every
\* migration of the list has been read, and applied when it had content.
C3_MissingFileDoesNotStopRun ==
    /\ \A k \in 1..NumMigrations :
          hist[k].file = "missing" =>
             /\ ~hist[k].called
             /\ ~hist[k].ret
             /\ (k = mig => reqlog = <<>> /\ inflight = {})
    /\ main_success_count = Cardinality({k \in 1..NumMigrations : hist[k].ret})
    /\ (Ended /\ \E k \in 1..NumMigrations : hist[k].file = "missing") =>
          /\ summary # NoSummary
          /\ \A k \in 1..NumMigrations :
                /\ hist[k].file # "pending"
                /\ hist[k].file = "text" => hist[k].called

C3_Witness ==
    /\ Ended
    /\ hist[1].file = "missing"
    /\ hist[2].called /\ hist[2].ret
    /\ hist[3].called

\* C4: a run that passed the connectivity check exits with status 0 if and
\* only if every migration of the list was fully applied; otherwise the
\* summary is printed and the exit status is not 0.
C4_ExitZeroIffAllFullyApplied ==
    (Ended /\ TestConnection(conn_resp)) =>
        /\ summary # NoSummary
        /\ exit_status = 0 <=> \A k \in 1..NumMigrations : hist[k].truth

\* C5: for every submitted statement the primary endpoint is called exactly
\* once, the secondary at most once and only after the primary result for
\* that statement was a non-success; no statement gets a third request.
C5_AtMostTwoAttempts ==
    /\ \A idx \in 1..Len(statements) :
          /\ Cardinality(RequestsFor("rpc", idx)) <= 1
          /\ Cardinality(RequestsFor("direct", idx)) <= 1
          /\ (idx < i /\ ~Skipped(statements[idx])) =>
                Cardinality(RequestsFor("rpc", idx)) = 1
          /\ \A d \in RequestsFor("direct", idx) :
                d > 1 /\ reqlog[d - 1] = [reqlog[d] EXCEPT !.ep = "rpc"]
    /\ \A n \in 1..Len(reqlog) : ~Skipped(reqlog[n].sql)
    /\ pc \in {"direct", "direct_wait"} => result.ep = "rpc" /\ ~result.success
    /\ (pc = "stmt" /\ result.ep = "rpc" /\ Len(reqlog) > 0) =>
          /\ result.success
          /\ reqlog[Len(reqlog)].ep = "rpc"

C5_Witness ==
    /\ Returned
    /\ Len(statements) = 2
    /\ Len(reqlog) = 3
    /\ reqlog[2].ep = "direct"
    /\ succeeded = {2}

\* C6: a statement that failed on both endpoints does not abort the
\* migration: when apply_migration returns, every statement it does not skip
\* has been attempted, whichever of them failed.
C6_FailureDoesNotAbort ==
    /\ Returned =>
          {reqlog[n].idx : n \in 1..Len(reqlog)}
              = {k \in 1..Len(statements) : ~Skipped(statements[k])}
    /\ pc = "stmt" => i <= Len(statements) + 1
    /\ \A n \in 1..Len(printed) :
          pc = "stmt" => i > printed[n].idx

C6_Witness ==
    /\ Returned
    /\ Len(printed) = 1 /\ printed[1].idx = 1
    /\ RequestsFor("rpc", 2) # {}
    /\ 2 \in succeeded

C7_WitnessRunGoesOn ==
    /\ pc = "done"
    /\ conn_resp.status = 200

\* C8: a transport error or timeout during a call to the primary or the
\* secondary endpoint becomes a non-success result carrying the error; it
\* never leaves apply_migration, and the next statement is executed.
C8_TransportErrorIsCaught ==
    /\ pc # "crashed"
    /\ last_resp.kind = "exception" =>
          /\ ~result.success
          /\ result.detail = "exception"
          /\ result.ep = "rpc" => pc \in {"direct", "direct_wait"}
          /\ (result.ep = "direct" /\ pc \in {"stmt", "sleep"}) =>
                /\ printed # <<>>
                /\ printed[Len(printed)].detail = "exception"
                /\ printed[Len(printed)].ep = "direct"
                /\ i > printed[Len(printed)].idx
    /\ Returned =>
          {reqlog[n].idx : n \in 1..Len(reqlog)}
              = {k \in 1..Len(statements) : ~Skipped(statements[k])}

C8_Witness ==
    /\ Returned
    /\ Len(printed) = 1
    /\ printed[1] = [idx |-> 1, ep |-> "direct", detail |-> "exception", status |-> 0]
    /\ 2 \in succeeded

(***************************************************************************)
(* Properties of the probe scripts.                                        *)
(***************************************************************************)
\* the script has run to its end
ProbeEnded == ppc = "end"

\* the requests issued after the request at position n of the trace
RequestsAfter(n) == {trace[k].req : k \in (n + 1)..Len(trace)}

\* the exceptions raised and not caught so far
Pending == {exc[k] : k \in 1..Len(exc)}

\* C9: when a probe script ends, every resource it created on the server
\* (a patient, a session, an appointment it holds the id of) has been the
\* target of a DELETE attempt, whatever the exit path was.
C9_EveryCreatedResourceGetsDelete ==
    ProbeEnded => created \subseteq deleted

\* C10: a check that fails ends the script with an assertion failure: the
\* AssertionError stays raised, and after the request whose response failed
\* the check only the requests of the finally block are issued.
C10_FailedCheckTerminatesScript ==
    \A n \in 1..Len(failed) :
        /\ AssertionError \in Pending
        /\ RequestsAfter(failed[n].at) \subseteq CleanupRequests

\* the script ran to its end and nothing was raised
Passed == ProbeEnded /\ exc = <<>>

\* the answer to the n-th request of the script, NoAnswer when not issued
NoAnswer == [kind |-> None, status |-> 0, body |-> None]

AnswerTo(n) == IF n <= Len(trace) THEN trace[n].resp ELSE NoAnswer

\* what C11 requires of the four answers of TC007
TC007_Expected ==
    /\ AnswerTo(1).status = 200
    /\ AnswerTo(2).status = 201 /\ AnswerTo(2).body = "obj_id"
    /\ AnswerTo(3).status = 200
    /\ \/ AnswerTo(4).status = 404
       \/ /\ AnswerTo(4).status = 200
          /\ AnswerTo(4).body \in {"obj_inactive", "obj_archived"}

\* C11: the archive probe TC007 ends without a failure if and only if the
\* login answers 200, the creation 201 with an id, the DELETE 200, and the
\* GET 404 or 200 with a body whose active is false or whose archived is true.
C11_ArchiveProbePassesIffArchived ==
    (script = "TC007" /\ ProbeEnded) => (Passed <=> TC007_Expected)

\* the positions of the trace at which the export for the unknown
\* patient_id was requested
InvalidIdRequests ==
    {k \in 1..Len(trace) :
        trace[k].req = "POST /api/lgpd/export unknown patient_id"}

\* the request at position k was answered and no check of the answer failed
StepPassed(k) ==
    /\ trace[k].resp.kind = "http"
    /\ \A n \in 1..Len(failed) : failed[n].at # k

\* the two outcomes C12 allows: an error status, or 200 with an empty payload
TC010_AllowedForUnknownId(resp) ==
    /\ resp.kind = "http"
    /\ \/ resp.status >= 400
       \/ resp.status = 200 /\ resp.body = "empty_obj"

\* C12: for the unknown patient_id the export probe TC010 accepts a status of
\* 400 or more, or 200 with an empty payload, and fails on anything else.
C12_UnknownIdAcceptsErrorOrEmpty ==
    \A k \in InvalidIdRequests :
        StepPassed(k) <=> TC010_AllowedForUnknownId(trace[k].resp)

\* the requests of TC001, in the order of the source
TC001_Requests ==
    <<"POST /api/auth/login valid", "POST /api/auth/login wrong password",
      "POST /api/auth/login denied user">>

\* what C13 requires of the three answers of TC001
TC001_Expected ==
    /\ AnswerTo(1).status = 200 /\ AnswerTo(1).body = "obj"
    /\ AnswerTo(2).status = 401
    /\ AnswerTo(3).status \in {401, 403}

\* C13: the login probe TC001 passes if and only if the valid login answers
\* 200 with a JSON object, the wrong-password login 401 and the denied login
\* 401 or 403; a transport error on any request fails it; the requests go
\* out in the order valid, wrong password, denied.
C13_LoginProbePassesIff ==
    script = "TC001" =>
        /\ ProbeEnded => (Passed <=> TC001_Expected)
        /\ \A k \in 1..Len(trace) :
              /\ trace[k].req = TC001_Requests[k]
              /\ trace[k].resp.kind = "exception" => (ProbeEnded /\ ~Passed)

\* TC001 passed with 401 for the wrong password and 403 for the denied user
C13_Witness ==
    /\ script = "TC001" /\ Passed
    /\ Len(trace) = 3
    /\ AnswerTo(2).status = 401
    /\ AnswerTo(3).status = 403

(***************************************************************************)
(* Further properties of the migration applier.                            *)
(***************************************************************************)
\* the execution requests that are outstanding
Outstanding == {r \in inflight : r.ep # "rest"}

\* at most one request is outstanding, and it is the one sent last; the
\* requests of a migration go out in the order of its statements; they are
\* sent for the migration the loop of main is at, every earlier migration of
\* the list having been read and no later one
C15_OneAtATime ==
    /\ Cardinality(inflight) <= 1
    /\ \A r \in Outstanding : reqlog # <<>> /\ r = reqlog[Len(reqlog)]
    /\ \A n \in 1..(Len(reqlog) - 1) : reqlog[n].idx <= reqlog[n + 1].idx
    /\ \A n \in 1..Len(reqlog) :
          /\ reqlog[n].idx \in 1..Len(statements)
          /\ reqlog[n].sql = statements[reqlog[n].idx]
    /\ reqlog # <<>> =>
          /\ mig \in 1..NumMigrations
          /\ hist[mig].called
          /\ \A k \in 1..NumMigrations :
                /\ k < mig => hist[k].file # "pending"
                /\ k > mig => hist[k] = HistPending

\* main moves to the next migration of the list only when nothing is
\* outstanding and the loop over the statements has run to its end
C15_MigrationsInOrder ==
    mig' # mig =>
        /\ mig' = mig + 1
        /\ inflight = {}
        /\ hist[mig].called => i > Len(statements)

\* C15: the applier is sequential: at most one HTTP request is outstanding,
\* statement j+1 is not submitted before every attempt for statement j has
\* returned, and no statement of migration k+1 is submitted before all
\* statements of migration k are processed, in the order of the list.
C15_FullySequential == []C15_OneAtATime /\ [][C15_MigrationsInOrder]_vars

\* in the second migration the primary call for statement 2 is outstanding
\* after both endpoints were called for statement 1
C15_Witness ==
    /\ mig = 2
    /\ Len(reqlog) = 3
    /\ reqlog[2].ep = "direct" /\ reqlog[2].idx = 1
    /\ reqlog[3].idx = 2
    /\ Outstanding = {reqlog[3]}

\* C17: a segment is discarded only when it is empty after trimming or
\* consists solely of comment; a segment that begins with a '--' line and
\* has an SQL command after it is submitted for execution.
C17_OnlyEmptyOrCommentDiscarded ==
    Returned =>
        \A k \in 1..Len(statements) :
            RequestsFor("rpc", k) = {} => IsCommentOnly(statements[k])

\* the file of the current migration exists and has no statement at all:
\* nothing but whitespace and semicolons
NoStatementsInFile == sql_content.exists /\ Statements(sql_content.text) = <<>>

\* C18: a migration whose file exists and has zero statements is counted as
\* fully applied, for a zero-length file as for a whitespace-only file.
C18_EmptyMigrationCountsAsApplied ==
    (pc = "sleep" /\ NoStatementsInFile) =>
        /\ hist[mig].ret
        /\ main_success_count = Cardinality({k \in 1..mig : hist[k].ret})

\* every error line carries the result of the secondary endpoint, and a
\* statement has at most one error line
C19_ErrorLinesAreSecondary ==
    /\ \A n \in 1..Len(printed) :
          /\ printed[n].ep = "direct"
          /\ RequestsFor("rpc", printed[n].idx) # {}
          /\ RequestsFor("direct", printed[n].idx) # {}
          /\ \A n2 \in 1..Len(printed) :
                printed[n2].idx = printed[n].idx => n2 = n
    /\ (pc = "stmt" /\ ~result.success /\ result.ep # None) =>
          /\ result = ExecuteSqlDirect(last_resp)
          /\ printed # <<>>
          /\ printed[Len(printed)].detail = result.detail
          /\ printed[Len(printed)].status = result.status

\* when the secondary fails too, the primary's result is replaced by the
\* secondary's and one line is printed, from the secondary's result
C19_PrimaryErrorOverwritten ==
    (pc = "direct_wait" /\ pc' = "stmt" /\ ~result'.success) =>
        /\ result.ep = "rpc" /\ ~result.success
        /\ result'.ep = "direct"
        /\ printed' = Append(printed, [idx |-> i, ep |-> "direct",
                                        detail |-> result'.detail,
                                        status |-> result'.status])

\* C19: when a statement fails on the primary and on the secondary endpoint,
\* the error reported for it is the secondary's only; the primary's error
\* detail is overwritten and appears in no output.
C19_OnlySecondaryErrorReported ==
    []C19_ErrorLinesAreSecondary /\ [][C19_PrimaryErrorOverwritten]_vars

\* statement 1 failed with HTTP 500 on the primary (its result is gone) and
\* with a transport error on the secondary, which is what was printed
C19_Witness ==
    /\ pc = "stmt"
    /\ Len(reqlog) = 2
    /\ reqlog[1].ep = "rpc" /\ reqlog[2].ep = "direct"
    /\ last_resp.kind = "exception"
    /\ printed = <<[idx |-> 1, ep |-> "direct", detail |-> "exception", status |-> 0]>>

\* a migration that has been read is the current one or an earlier one, and
\* requests are sent for the current one only
C21_ReadInTurn ==
    /\ \A k \in 1..NumMigrations : hist[k].file # "pending" => k <= mig
    /\ (reqlog # <<>> \/ Outstanding # {}) =>
          mig \in 1..NumMigrations /\ hist[mig].called

\* the head of the loop of main is reached from the connectivity check or
\* from the pause; main moves to the next migration by the pause only, once
\* the current one has been read; the pause reads no file and sends nothing
C21_PauseThenNext ==
    /\ pc' = "loop" => pc \in {"conn_wait", "sleep"}
    /\ mig' # mig =>
          /\ pc = "sleep"
          /\ mig' = mig + 1
          /\ hist[mig].file # "pending"
    /\ pc = "sleep" =>
          /\ pc' = "loop"
          /\ hist' = hist
          /\ inflight = {} /\ inflight' = {}
          /\ reqlog' = <<>>

\* C21: a pause separates consecutive migrations: after the processing of
\* migration k has ended (fully applied, partly applied or file missing) the
\* pause elapses before the file of migration k+1 is read or one of its
\* statements is submitted.
C21_PauseBetweenMigrations == []C21_ReadInTurn /\ [][C21_PauseThenNext]_vars

\* migration 1 had no file, migration 2 was partly applied, and after the
\* pauses a statement of migration 3 is outstanding
C21_Witness ==
    /\ mig = 3
    /\ hist[1].file = "missing"
    /\ hist[2].called /\ ~hist[2].ret
    /\ Outstanding # {}

\* the statements of a text that line 92 does not skip
NotSkipped(statement) == ~Skipped(statement)

\* migration k has been processed: read, and applied if it was to be
Processed(k) == k < mig \/ (k = mig /\ pc = "sleep")

\* C22: the outcome of a migration does not change what is done for the
\* later ones: every migration of the list is read in its turn and entered
\* when its file has text, whatever the earlier ones returned, and what is
\* submitted for it is what its own text holds.
C22_LaterMigrationsUnaffected ==
    /\ Returned =>
          SentTo("rpc") = SelectSeq(Statements(sql_content.text), NotSkipped)
    /\ \A k \in 1..NumMigrations :
          Processed(k) =>
             /\ hist[k].file # "pending"
             /\ hist[k].called <=> hist[k].file = "text"
    /\ summary # NoSummary => \A k \in 1..NumMigrations : Processed(k)

\* migration 1 was partly applied, migration 2 had no file, and migration 3
\* was entered and fully applied
C22_Witness ==
    /\ Returned
    /\ mig = 3
    /\ hist[1].called /\ ~hist[1].ret
    /\ hist[2].file = "missing"
    /\ hist[3].ret
    /\ Len(reqlog) >= 2

\* C23: a statement the primary endpoint answered with HTTP 200 is never
\* sent to the secondary endpoint, whatever the body of the 200 response is.
C23_AcceptedByPrimaryNotResent ==
    pc \in {"direct", "direct_wait"} =>
        ~(last_resp.kind = "http" /\ last_resp.status = 200)

\* the statements of the current migration a request was sent for
Attempted == {reqlog[n].idx : n \in 1..Len(reqlog)}

\* the migrations that have been read
ReadSoFar == {k \in 1..NumMigrations : hist[k].file # "pending"}

\* C24: the counters stay consistent: within a migration 0 <= success count
\* <= statements attempted so far <= segments of the file, a statement
\* raises the success count by at most one, and over the run 0 <= migrations
\* counted as applied <= migrations processed so far <= M.
C24_CountersConsistent ==
    /\ 0 <= success_count
    /\ success_count <= Cardinality(Attempted)
    /\ Cardinality(Attempted) <= Len(statements)
    /\ Len(statements) <= Len(SplitOn(sql_content.text, ";"))
    /\ success_count = Cardinality(succeeded)
    /\ succeeded \subseteq Attempted
    /\ 0 <= main_success_count
    /\ main_success_count <= Cardinality(ReadSoFar)
    /\ main_success_count = Cardinality({k \in ReadSoFar : hist[k].ret})
    /\ Cardinality(ReadSoFar) <= NumMigrations
    /\ summary # NoSummary =>
          summary.k = main_success_count /\ summary.m = NumMigrations

\* in migration 2, statement 1 failed on both endpoints and statement 2
\* succeeded on the secondary; migration 1 was counted
C24_Witness ==
    /\ Returned
    /\ mig = 2
    /\ main_success_count = 1
    /\ Len(statements) = 2
    /\ Len(reqlog) = 4
    /\ success_count = 1
    /\ succeeded = {2}

\* the connectivity request is outstanding
ConnOutstanding == \E r \in inflight : r.ep = "rest"

\* the connectivity request is outstanding only while main waits for its
\* answer, no statement gets more than two execution requests, and a run
\* that has ended has exit status 0 or 1
C25_BoundedRequests ==
    /\ ConnOutstanding <=> pc = "conn_wait"
    /\ pc \in {"start", "conn_wait"} <=> conn_resp = NoResponse
    /\ \A idx \in 1..Len(statements) :
          Cardinality({n \in 1..Len(reqlog) : reqlog[n].idx = idx}) <= 2
    /\ \A n \in 1..Len(reqlog) : reqlog[n].idx \in 1..Len(statements)
    /\ Ended <=> exit_status \in {0, 1}
    /\ exit_status \in {NoExit, 0, 1}

\* the connectivity request is sent once, at the start of main, and its
\* answer is received once
C25_OneConnectivityRequest ==
    /\ pc' = "conn_wait" => pc = "start"
    /\ pc' # "start"
    /\ conn_resp' # conn_resp => conn_resp = NoResponse

\* C25: every HTTP call returning or timing out, a run of
\* apply-migrations-api.py terminates, with exit status 0 or 1, after one
\* connectivity request and at most two execution requests per statement.
C25_RunTerminates ==
    /\ <>Ended
    /\ []C25_BoundedRequests
    /\ [][C25_OneConnectivityRequest]_vars

\* the run ended with status 1 after the summary, a statement of the last
\* migration having been sent to both endpoints
C25_Witness ==
    /\ Ended
    /\ exit_status = 1
    /\ summary # NoSummary
    /\ hist[NumMigrations].called
    /\ conn_resp.status = 200

(***************************************************************************)
(* Properties of deploy-production.py.                                     *)
(***************************************************************************)
\* C16: in deploy-production.py a missing migration file does not crash the
\* run: the migration is recorded as failed, the remaining migrations of the
\* list are processed, and the final summary is printed.
C16_DeployMissingFileDoesNotStopRun ==
    (Ended /\ \E k \in 1..NumMigrations : hist[k].file = "missing") =>
        /\ summary # NoSummary
        /\ \A k \in 1..NumMigrations :
              /\ hist[k].file # "pending"
              /\ hist[k].file = "missing" => ~hist[k].ret

\* C20: in the appointment probe TC008, once the patient was created, a
\* DELETE of the patient is attempted in cleanup on every exit path,
\* whatever the DELETE of the appointment did before it.
C20_PatientDeleteAlwaysAttempted ==
    (script = "TC008" /\ ProbeEnded /\ IsSet(plocals.patient_id)) =>
        \E k \in 1..Len(trace) :
            trace[k].req = "DELETE /api/patients/{id} cleanup"

====
